---- MODULE Spec2Model ----
(***************************************************************************)
(* A model of read_session.py, the session reader of pi-config: the JSONL  *)
(* parser (parse_session), the turn normaliser (extract_turns), the text   *)
(* helper truncate and the six report renderers dispatched by main.        *)
(*                                                                         *)
(* Python strings are sequences of one-character strings, so that len,     *)
(* slicing, strip and concatenation are computed and not assumed.  Money   *)
(* amounts are integers (a fixed unit of currency); sums are taken in file *)
(* order as the code takes them.  Timestamps, model and provider names are *)
(* display-only and are left out of the records.                           *)
(***************************************************************************)
EXTENDS Integers, Sequences, FiniteSets, TLC

VARIABLES
    lines,          \* the input file: a sequence of lines
    args,           \* argparse namespace: mode, offset, limit, max_content
    pc,             \* position of main
    ln,             \* parse_session: number of lines consumed
    metadata,       \* parse_session: the metadata slot
    events,         \* parse_session: the event list
    messages,       \* parse_session: the raw message list
    turns,          \* extract_turns: the turn list
    i,              \* renderer: number of loop iterations done
    turn_num,       \* renderer: the user-turn counter
    tool_num,       \* print_tools: the tool-call counter
    assistant_num,  \* print_costs: the assistant row counter
    total_cost,     \* print_overview / print_costs: session cost accumulator
    sub_num,        \* print_costs / print_subagents: run counter
    found_any,      \* print_subagents: an invocation was met
    out,            \* everything printed on stdout, in order
    text,           \* truncate harness: the text given
    max_len,        \* truncate harness: the maximum given
    res1,           \* truncate harness: truncate(text, max_len)
    res2,           \* truncate harness: truncate(res1, max_len)
    tpc             \* truncate harness: position

vars == <<lines, args, pc, ln, metadata, events, messages, turns, i, turn_num,
          tool_num, assistant_num, total_cost, sub_num, found_any, out,
          text, max_len, res1, res2, tpc>>

inputVars == <<lines, args>>
parseVars == <<ln, metadata, events, messages>>
loopVars == <<i, turn_num, tool_num, assistant_num, total_cost, sub_num, found_any>>
truncVars == <<text, max_len, res1, res2, tpc>>

-----------------------------------------------------------------------------
(* Bounds of the model.                                                    *)

MaxLines == 3       \* longest input file of the parser specification
MaxTurns == 3       \* longest message list of the renderer specification
MaxSessionTurns == 4 \* longest message list of the session totals specification
MaxSubMsgs == 6     \* longest message list of the subagent specification
MaxTextMsgs == 2    \* longest message list of the content specification
MaxToolMsgs == 2    \* longest message list of the tool result specification
MaxOffset == 1      \* largest --offset
MaxLimit == 1       \* largest --limit
MaxTextLen == 3     \* longest exhaustively enumerated text
MaxShortMax == 3    \* largest small --max-content

-----------------------------------------------------------------------------
(* Generic helpers.                                                        *)

Min(a, b) == IF a <= b THEN a ELSE b
Max(a, b) == IF a >= b THEN a ELSE b

SeqsUpTo(S, n) == UNION {[1..k -> S] : k \in 0..n}

Rep(c, n) == [k \in 1..n |-> c]

Whitespace == {" ", "\n", "\t"}

\* str.strip(): leading and trailing whitespace removed
RECURSIVE LStrip(_)
LStrip(s) == IF s # <<>> /\ Head(s) \in Whitespace THEN LStrip(Tail(s)) ELSE s

RECURSIVE RStrip(_)
RStrip(s) ==
    IF s # <<>> /\ s[Len(s)] \in Whitespace THEN RStrip(SubSeq(s, 1, Len(s) - 1)) ELSE s

Strip(s) == RStrip(LStrip(s))

\* " ".join(list)
RECURSIVE JoinSpace(_)
JoinSpace(ss) ==
    IF ss = <<>> THEN <<>>
    ELSE IF Len(ss) = 1 THEN ss[1]
    ELSE ss[1] \o <<" ">> \o JoinSpace(Tail(ss))

DigitChar == <<"0", "1", "2", "3", "4", "5", "6", "7", "8", "9">>

\* str(n) for n >= 0, as the f-string formats len(text)
RECURSIVE Decimal(_)
Decimal(n) ==
    IF n < 10 THEN <<DigitChar[n + 1]>>
    ELSE Decimal(n \div 10) \o <<DigitChar[(n % 10) + 1]>>

-----------------------------------------------------------------------------
(* truncate                                                                *)

SuffixHead == <<"\n", ".", ".", ".", " ", "[", "t", "r", "u", "n", "c", "a", "t", "e",
                "d", ",", " ">>
SuffixTail == <<" ", "c", "h", "a", "r", "s", " ", "t", "o", "t", "a", "l", "]">>

\* f"\n... [truncated, {n} chars total]"
TruncSuffix(n) == SuffixHead \o Decimal(n) \o SuffixTail

truncate_cuts_at_limit(t, m) ==
    IF m <= 0 \/ Len(t) < m THEN t
    ELSE SubSeq(t, 1, m) \o TruncSuffix(Len(t))

truncate(t, m) ==
    IF m <= 0 \/ Len(t) <= m THEN t
    ELSE SubSeq(t, 1, m) \o TruncSuffix(Len(t))

-----------------------------------------------------------------------------
(* JSON values.  A line of the file is blank, not JSON ("bad"), or a JSON  *)
(* object with a type tag, a tag that tells records of one type apart, and *)
(* a "message" member.  A member the object lacks has the default the      *)
(* code's .get() gives it.                                                 *)

NoArgs == [chain |-> <<>>, tasks |-> <<>>]                \* {}
ArgsA == [chain |-> <<"scout", "worker">>, tasks |-> <<>>]
ArgsB == [chain |-> <<>>, tasks |-> <<"review">>]

StrContent(s) == [isStr |-> TRUE, str |-> s, items |-> <<>>]
ListContent(its) == [isStr |-> FALSE, str |-> <<>>, items |-> its]

TextItem(s) == [type |-> "text", text |-> s, name |-> "", arguments |-> NoArgs]
ThinkingItem(s) == [type |-> "thinking", text |-> s, name |-> "", arguments |-> NoArgs]
ToolCallItem(n, a) == [type |-> "toolCall", text |-> <<>>, name |-> n, arguments |-> a]
NonDictItem == [type |-> "nondict", text |-> <<>>, name |-> "", arguments |-> NoArgs]

NoUsage == [has |-> FALSE, total |-> 0, input |-> 0, output |-> 0]
Usage(c, tin, tout) == [has |-> TRUE, total |-> c, input |-> tin, output |-> tout]

NoDetails == [has |-> FALSE, mode |-> "?", results |-> <<>>]
Details(m, rs) == [has |-> TRUE, mode |-> m, results |-> rs]
RunResult(c, e) == [cost |-> c, exitCode |-> e]

Msg(r, c, u, tn, d, e) ==
    [role |-> r, content |-> c, usage |-> u, toolName |-> tn, details |-> d, isError |-> e]

NoMsg == Msg("", StrContent(<<>>), NoUsage, "", NoDetails, FALSE)    \* {}

BlankLine == [kind |-> "blank", type |-> "", tag |-> "", msg |-> NoMsg]
BadLine == [kind |-> "bad", type |-> "", tag |-> "", msg |-> NoMsg]
JsonLine(t, g, m) == [kind |-> "json", type |-> t, tag |-> g, msg |-> m]
EmptyDict == [kind |-> "json", type |-> "", tag |-> "N/A", msg |-> NoMsg]    \* {}

MessageLine(m) == JsonLine("message", "", m)

\* The messages the renderer specification draws from
MsgUser == Msg("user", StrContent(<<"h", "i">>), NoUsage, "", NoDetails, FALSE)
MsgAsstText ==
    Msg("assistant", ListContent(<<ThinkingItem(<<"t">>), TextItem(<<"o", "k">>)>>),
        Usage(1, 10, 2), "", NoDetails, FALSE)
MsgAsstTools ==
    Msg("assistant",
        ListContent(<<ToolCallItem("bash", NoArgs), ToolCallItem("subagent", ArgsA)>>),
        NoUsage, "", NoDetails, FALSE)
MsgToolRes ==
    Msg("toolResult", ListContent(<<TextItem(<<"a", "\n", "b">>)>>), NoUsage, "bash",
        NoDetails, TRUE)
MsgSubRes ==
    Msg("toolResult", StrContent(<<"d">>), NoUsage, "subagent",
        Details("chain", <<RunResult(3, 0), RunResult(0, 1)>>), FALSE)
MsgSystem == Msg("system", StrContent(<<"s">>), NoUsage, "", NoDetails, FALSE)

RenderMsgs == {MsgUser, MsgAsstText, MsgAsstTools, MsgToolRes, MsgSubRes, MsgSystem}

\* The lines the parser specification draws from
SessionLine(g) == JsonLine("session", g, NoMsg)
ParseLines ==
    {BlankLine, BadLine, SessionLine("S1"), SessionLine("S2"),
     JsonLine("model_change", "E1", NoMsg), JsonLine("thinking_level_change", "E2", NoMsg),
     JsonLine("unknown", "U1", NoMsg), JsonLine("", "U2", NoMsg),
     MessageLine(MsgUser), MessageLine(MsgAsstText)}

Modes == {"overview", "conversation", "full", "tools", "costs", "subagents"}
WindowedModes == {"overview", "conversation", "full", "tools", "costs"}

DefaultMaxContent == 2000

Args(m, o, l, mc) == [mode |-> m, offset |-> o, limit |-> l, max_content |-> mc]

-----------------------------------------------------------------------------
(* parse_session                                                           *)

\* The three lists after one more JSON object: <<metadata, events, messages>>
Classify_unknown_as_message(obj, md, ev, ms) ==
    IF obj.type = "session" THEN <<obj, ev, ms>>
    ELSE IF obj.type \in {"model_change", "thinking_level_change"}
         THEN <<md, Append(ev, obj), ms>>
    ELSE IF obj.type \in {"message", "unknown"} THEN <<md, ev, Append(ms, obj)>>
    ELSE <<md, ev, ms>>

Classify_first_session_wins(obj, md, ev, ms) ==
    IF obj.type = "session" THEN <<IF md = EmptyDict THEN obj ELSE md, ev, ms>>
    ELSE IF obj.type \in {"model_change", "thinking_level_change"}
         THEN <<md, Append(ev, obj), ms>>
    ELSE IF obj.type = "message" THEN <<md, ev, Append(ms, obj)>>
    ELSE <<md, ev, ms>>

Classify(obj, md, ev, ms) ==
    IF obj.type = "session" THEN <<obj, ev, ms>>
    ELSE IF obj.type \in {"model_change", "thinking_level_change"}
         THEN <<md, Append(ev, obj), ms>>
    ELSE IF obj.type = "message" THEN <<md, ev, Append(ms, obj)>>
    ELSE <<md, ev, ms>>

\* What json.loads does with a line: TRUE when it raises
Raises_never(line) == FALSE

Raises(line) == line.kind = "bad"

\* One iteration of the loop over the file
ParseLine ==
    /\ pc = "parse"
    /\ ln < Len(lines)
    /\ LET line == lines[ln + 1]
           c == Classify(line, metadata, events, messages) IN
       /\ ln' = ln + 1
       /\ IF line.kind = "blank"
          THEN UNCHANGED <<pc, metadata, events, messages>>
          ELSE IF Raises(line)
          THEN /\ pc' = "aborted"
               /\ UNCHANGED <<metadata, events, messages>>
          ELSE /\ metadata' = c[1]
               /\ events' = c[2]
               /\ messages' = c[3]
               /\ UNCHANGED pc
    /\ UNCHANGED <<inputVars, turns, loopVars, out, truncVars>>

\* The file is exhausted: parse_session returns to main
ParseReturn ==
    /\ pc = "parse"
    /\ ln = Len(lines)
    /\ pc' = "extract"
    /\ UNCHANGED <<inputVars, parseVars, turns, loopVars, out, truncVars>>

-----------------------------------------------------------------------------
(* extract_subagent_details, extract_turns                                 *)

extract_subagent_details(msg) ==
    IF msg.role # "toolResult" \/ msg.toolName # "subagent" THEN NoDetails
    ELSE IF ~msg.details.has THEN NoDetails
    ELSE msg.details

\* texts of the generic content branch
RECURSIVE GenericItemTexts(_)
GenericItemTexts(its) ==
    IF its = <<>> THEN <<>>
    ELSE LET it == Head(its) IN
         (IF it.type = "text" /\ Strip(it.text) # <<>> THEN <<it.text>> ELSE <<>>)
         \o GenericItemTexts(Tail(its))

GenericTexts(content) ==
    IF content.isStr
    THEN IF Strip(content.str) # <<>> THEN <<content.str>> ELSE <<>>
    ELSE GenericItemTexts(content.items)

RECURSIVE ItemToolCalls(_)
ItemToolCalls(its) ==
    IF its = <<>> THEN <<>>
    ELSE LET it == Head(its) IN
         (IF it.type = "toolCall"
          THEN <<[name |-> it.name, arguments |-> it.arguments]>> ELSE <<>>)
         \o ItemToolCalls(Tail(its))

ToolCalls(content) == IF content.isStr THEN <<>> ELSE ItemToolCalls(content.items)

RECURSIVE ItemThinking(_)
ItemThinking(its) ==
    IF its = <<>> THEN <<>>
    ELSE LET it == Head(its) IN
         (IF it.type = "thinking" /\ it.text # <<>> THEN <<it.text>> ELSE <<>>)
         \o ItemThinking(Tail(its))

Thinking(content) == IF content.isStr THEN <<>> ELSE ItemThinking(content.items)

\* texts of the toolResult branch, which replace the generic ones
RECURSIVE ResultItemTexts(_)
ResultItemTexts(its) ==
    IF its = <<>> THEN <<>>
    ELSE LET it == Head(its) IN
         (IF it.type = "text" THEN <<it.text>> ELSE <<>>) \o ResultItemTexts(Tail(its))

ResultTexts(content) ==
    IF ~content.isStr THEN ResultItemTexts(content.items)
    ELSE IF Strip(content.str) # <<>> THEN <<content.str>> ELSE <<>>

\* The turn built from one raw message entry
TurnOf(entry) ==
    LET msg == entry.msg
        role == msg.role IN
    [role |-> role,
     texts |-> IF role = "toolResult" THEN ResultTexts(msg.content)
               ELSE GenericTexts(msg.content),
     tool_calls |-> ToolCalls(msg.content),
     thinking |-> Thinking(msg.content),
     is_error |-> msg.isError,
     usage |-> IF role = "assistant" /\ msg.usage.has THEN msg.usage ELSE NoUsage,
     tool_name |-> IF role = "toolResult" THEN msg.toolName ELSE "?",
     subagent_details |-> IF role = "toolResult" THEN extract_subagent_details(msg)
                          ELSE NoDetails]

extract_turns(ms) == [k \in 1..Len(ms) |-> TurnOf(ms[k])]

\* main, lines 650-651: parse_session has returned, the turns are built
ExtractTurns ==
    /\ pc = "extract"
    /\ turns' = extract_turns(messages)
    /\ pc' = "dispatch"
    /\ UNCHANGED <<inputVars, parseVars, loopVars, out, truncVars>>

-----------------------------------------------------------------------------
(* What the renderers share.                                               *)

\* One printed item: its kind, the index of the turn (or raw message) it
\* shows, the turn counter it was windowed with, the number printed in it,
\* the amount of money printed in it, its text blocks and its names.
Entry(k, x, t, n, c, txt, nm) ==
    [kind |-> k, idx |-> x, tn |-> t, n |-> n, cost |-> c, txt |-> txt, names |-> nm]

Banner(title) == Entry(title, 0, 0, 0, 0, <<>>, <<>>)

Take(s, n) == SubSeq(s, 1, Min(n, Len(s)))                      \* s[:n], n >= 0
ReplaceNL(s) == [k \in 1..Len(s) |-> IF s[k] = "\n" THEN " " ELSE s[k]]

RECURSIVE MapTruncate(_, _)
MapTruncate(ss, m) ==
    IF ss = <<>> THEN <<>> ELSE <<truncate(Head(ss), m)>> \o MapTruncate(Tail(ss), m)

\* the turn counter after a turn of this role
CountTurn_any_role(role, n) == IF role \in {"user", "assistant"} THEN n + 1 ELSE n

CountTurn(role, n) == IF role = "user" THEN n + 1 ELSE n

\* The two window tests every windowed renderer applies to a turn it renders
Window_lower_bound_always(tn) ==
    IF tn <= args.offset THEN "continue"
    ELSE IF args.limit # 0 /\ tn > args.offset + args.limit THEN "break"
    ELSE "show"

Window(tn) ==
    IF args.offset # 0 /\ tn <= args.offset THEN "continue"
    ELSE IF args.limit # 0 /\ tn > args.offset + args.limit THEN "break"
    ELSE "show"

RunCost(r) == r.cost
RECURSIVE RunCosts(_)
RunCosts(rs) == IF rs = <<>> THEN 0 ELSE RunCost(Head(rs)) + RunCosts(Tail(rs))

\* format_subagent_summary: the header's run count and combined cost
SubagentSummary(x, tn, details) ==
    Entry("subagent_summary", x, tn, Len(details.results), RunCosts(details.results),
          <<>>, <<details.mode>>)

RECURSIVE ToolNames(_)
ToolNames(tcs) == IF tcs = <<>> THEN <<>> ELSE <<Head(tcs).name>> \o ToolNames(Tail(tcs))

\* Where main goes when a renderer's loop ends
AfterLoop ==
    IF args.mode = "costs" THEN "totals"
    ELSE IF args.mode = "subagents" THEN "sub_end"
    ELSE "done"

\* One loop iteration ends: the loop goes on unless it broke or ran out
LoopPc(brk, n) == IF brk \/ i + 1 = n THEN AfterLoop ELSE "loop"

\* A renderer prints its banner and enters its loop
StartLoop(banner, n) ==
    /\ i' = 0
    /\ turn_num' = 0
    /\ out' = out \o banner
    /\ pc' = IF n = 0 THEN AfterLoop ELSE "loop"

-----------------------------------------------------------------------------
(* print_overview                                                          *)

UserPreviewLen == 200
AssistantPreviewLen == 150
ResultPreviewLen == 100
EmptyText == <<"(", "e", "m", "p", "t", "y", ")">>

\* lines 232-240: the session totals, over every turn
SessionCost_skips_offset(ts) ==
    LET f[k \in 0..Len(ts)] ==
            IF k = 0 THEN 0
            ELSE f[k - 1] + (IF k > args.offset THEN ts[k].usage.total ELSE 0)
    IN f[Len(ts)]

RECURSIVE SessionCost(_)
SessionCost(ts) == IF ts = <<>> THEN 0 ELSE Head(ts).usage.total + SessionCost(Tail(ts))

RECURSIVE SessionInput(_)
SessionInput(ts) == IF ts = <<>> THEN 0 ELSE Head(ts).usage.input + SessionInput(Tail(ts))

RECURSIVE SessionOutput(_)
SessionOutput(ts) ==
    IF ts = <<>> THEN 0 ELSE Head(ts).usage.output + SessionOutput(Tail(ts))

\* lines 243-250 (and 512-522): the subagent totals, over every turn
RECURSIVE SubagentCost(_)
SubagentCost(ts) ==
    IF ts = <<>> THEN 0
    ELSE (IF Head(ts).subagent_details.has THEN RunCosts(Head(ts).subagent_details.results)
          ELSE 0) + SubagentCost(Tail(ts))

RECURSIVE SubagentCount(_)
SubagentCount(ts) ==
    IF ts = <<>> THEN 0
    ELSE (IF Head(ts).subagent_details.has THEN 1 ELSE 0) + SubagentCount(Tail(ts))

RECURSIVE RoleCount(_, _)
RoleCount(ts, role) ==
    IF ts = <<>> THEN 0
    ELSE (IF Head(ts).role = role THEN 1 ELSE 0) + RoleCount(Tail(ts), role)

Amount(k, c) == Entry(k, 0, 0, 0, c, <<>>, <<>>)
Count(k, n) == Entry(k, 0, 0, n, 0, <<>>, <<>>)

\* lines 217-270: everything print_overview prints before its loop
OverviewHeader ==
    LET tc == SessionCost(turns)
        sc == SubagentCost(turns)
        sn == SubagentCount(turns) IN
    <<Banner("SESSION OVERVIEW"), Entry("meta", 0, 0, 0, 0, <<>>, <<metadata.tag>>)>>
    \o [k \in 1..Len(events) |-> Entry("event", k, 0, 0, 0, <<>>, <<events[k].tag>>)]
    \o (IF tc > 0
        THEN <<Amount("session_cost", tc), Count("tokens_in", SessionInput(turns)),
               Count("tokens_out", SessionOutput(turns))>>
        ELSE <<>>)
    \o (IF sc > 0
        THEN <<Entry("subagent_cost", 0, 0, sn, sc, <<>>, <<>>), Amount("total_cost", tc + sc)>>
        ELSE <<>>)
    \o <<Count("turns", Len(turns)), Count("user_turns", RoleCount(turns, "user")),
         Count("assistant_turns", RoleCount(turns, "assistant")),
         Count("tool_results", RoleCount(turns, "toolResult"))>>
    \o (IF sn # 0 THEN <<Count("subagent_invocations", sn)>> ELSE <<>>)
    \o <<Banner("TURN SUMMARY")>>

StartOverview ==
    /\ pc = "dispatch"
    /\ args.mode = "overview"
    /\ total_cost' = SessionCost(turns)
    /\ StartLoop(OverviewHeader, Len(turns))
    /\ UNCHANGED <<inputVars, parseVars, turns, tool_num, assistant_num, sub_num, found_any,
                   truncVars>>

\* lines 283-284, 292-305, 314-321: the line printed for a turn in the window
OverviewLine(t, x, tn) ==
    IF t.role = "user"
    THEN Entry("user", x, tn, tn, 0,
               <<ReplaceNL(Take(JoinSpace(t.texts), UserPreviewLen))>>, <<>>)
    ELSE IF t.role = "assistant"
    THEN Entry("assistant", x, tn, 0, t.usage.total,
               IF t.texts # <<>>
               THEN <<ReplaceNL(Take(t.texts[1], AssistantPreviewLen))>>
               ELSE IF t.tool_calls # <<>> THEN <<>> ELSE <<EmptyText>>,
               ToolNames(t.tool_calls))
    ELSE IF t.subagent_details.has
    THEN SubagentSummary(x, tn, t.subagent_details)
    ELSE Entry("toolResult", x, tn, 0, 0,
               <<IF JoinSpace(t.texts) # <<>>
                 THEN ReplaceNL(Take(JoinSpace(t.texts), ResultPreviewLen))
                 ELSE EmptyText>>,
               <<t.tool_name>>)

\* lines 273-321: one iteration of the turn summary loop
OverviewStep ==
    /\ pc = "loop"
    /\ args.mode = "overview"
    /\ i < Len(turns)
    /\ LET t == turns[i + 1]
           tn == CountTurn(t.role, turn_num)
           w == IF t.role \in {"user", "assistant", "toolResult"} THEN Window(tn)
                ELSE "continue" IN
       /\ turn_num' = tn
       /\ i' = i + 1
       /\ out' = IF w = "show" THEN Append(out, OverviewLine(t, i + 1, tn)) ELSE out
       /\ pc' = LoopPc(w = "break", Len(turns))
    /\ UNCHANGED <<inputVars, parseVars, turns, tool_num, assistant_num, total_cost, sub_num,
                   found_any, truncVars>>

-----------------------------------------------------------------------------
(* print_conversation                                                      *)

StartConversation ==
    /\ pc = "dispatch"
    /\ args.mode = "conversation"
    /\ StartLoop(<<Banner("CONVERSATION")>>, Len(turns))
    /\ UNCHANGED <<inputVars, parseVars, turns, tool_num, assistant_num, total_cost, sub_num,
                   found_any, truncVars>>

\* Which turns print_conversation renders (lines 334, 347, 357)
ConversationRenders(t) ==
    \/ t.role = "user"
    \/ t.role = "assistant" /\ t.texts # <<>>
    \/ t.role = "toolResult" /\ t.subagent_details.has

ConversationLine(t, x, tn) ==
    IF t.role = "toolResult" THEN SubagentSummary(x, tn, t.subagent_details)
    ELSE Entry(t.role, x, tn, 0, 0, MapTruncate(t.texts, args.max_content), <<>>)

\* lines 331-364: one iteration
ConversationStep ==
    /\ pc = "loop"
    /\ args.mode = "conversation"
    /\ i < Len(turns)
    /\ LET t == turns[i + 1]
           tn == CountTurn(t.role, turn_num)
           w == IF ConversationRenders(t) THEN Window(tn) ELSE "continue" IN
       /\ turn_num' = tn
       /\ i' = i + 1
       /\ out' = IF w = "show" THEN Append(out, ConversationLine(t, i + 1, tn)) ELSE out
       /\ pc' = LoopPc(w = "break", Len(turns))
    /\ UNCHANGED <<inputVars, parseVars, turns, tool_num, assistant_num, total_cost, sub_num,
                   found_any, truncVars>>

-----------------------------------------------------------------------------
(* print_full                                                              *)

StartFull ==
    /\ pc = "dispatch"
    /\ args.mode = "full"
    /\ StartLoop(<<Banner("FULL SESSION")>>, Len(turns))
    /\ UNCHANGED <<inputVars, parseVars, turns, tool_num, assistant_num, total_cost, sub_num,
                   found_any, truncVars>>

\* lines 384-388, 395-408, 416-433; the serialised tool-call arguments and
\* the artifact paths are not carried
FullLine(t, x, tn) ==
    IF t.role = "user"
    THEN Entry("user", x, tn, 0, 0, MapTruncate(t.texts, args.max_content), <<>>)
    ELSE IF t.role = "assistant"
    THEN Entry("assistant", x, tn, 0, 0,
               MapTruncate(t.thinking, args.max_content)
               \o MapTruncate(t.texts, args.max_content),
               ToolNames(t.tool_calls))
    ELSE IF t.subagent_details.has
    THEN SubagentSummary(x, tn, t.subagent_details)
    ELSE Entry("toolResult", x, tn, 0, 0, MapTruncate(t.texts, args.max_content),
               <<t.tool_name>>)

\* lines 374-433: one iteration
FullStep ==
    /\ pc = "loop"
    /\ args.mode = "full"
    /\ i < Len(turns)
    /\ LET t == turns[i + 1]
           tn == CountTurn(t.role, turn_num)
           w == IF t.role \in {"user", "assistant", "toolResult"} THEN Window(tn)
                ELSE "continue" IN
       /\ turn_num' = tn
       /\ i' = i + 1
       /\ out' = IF w = "show" THEN Append(out, FullLine(t, i + 1, tn)) ELSE out
       /\ pc' = LoopPc(w = "break", Len(turns))
    /\ UNCHANGED <<inputVars, parseVars, turns, tool_num, assistant_num, total_cost, sub_num,
                   found_any, truncVars>>

-----------------------------------------------------------------------------
(* print_tools                                                             *)

ToolsResultCap == 500

StartTools ==
    /\ pc = "dispatch"
    /\ args.mode = "tools"
    /\ tool_num' = 0
    /\ StartLoop(<<Banner("TOOL CALLS")>>, Len(turns))
    /\ UNCHANGED <<inputVars, parseVars, turns, assistant_num, total_cost, sub_num,
                   found_any, truncVars>>

\* Which turns print_tools renders (lines 448, 460)
ToolsRenders(t) ==
    \/ t.role = "assistant" /\ t.tool_calls # <<>>
    \/ t.role = "toolResult"

\* lines 454-458: the tool calls of one assistant turn, numbered from base + 1
ToolCallLines(t, x, tn, base) ==
    [k \in 1..Len(t.tool_calls) |->
        Entry("toolCall", x, tn, base + k, 0, <<>>, <<t.tool_calls[k].name>>)]

\* lines 471-472: the text printed for a result that is no subagent result
ToolsResultText(texts, max_content) ==
    truncate(JoinSpace(texts), Min(max_content, ToolsResultCap))

ToolsResultLine(t, x, tn) ==
    IF t.subagent_details.has THEN SubagentSummary(x, tn, t.subagent_details)
    ELSE Entry("toolResult", x, tn, 0, 0, <<ToolsResultText(t.texts, args.max_content)>>,
               <<>>)

\* lines 444-472: one iteration
ToolsStep ==
    /\ pc = "loop"
    /\ args.mode = "tools"
    /\ i < Len(turns)
    /\ LET t == turns[i + 1]
           tn == CountTurn(t.role, turn_num)
           w == IF ToolsRenders(t) THEN Window(tn) ELSE "continue"
           calls == w = "show" /\ t.role = "assistant" IN
       /\ turn_num' = tn
       /\ i' = i + 1
       /\ tool_num' = IF calls THEN tool_num + Len(t.tool_calls) ELSE tool_num
       /\ out' = IF calls THEN out \o ToolCallLines(t, i + 1, tn, tool_num)
                 ELSE IF w = "show" THEN Append(out, ToolsResultLine(t, i + 1, tn))
                 ELSE out
       /\ pc' = LoopPc(w = "break", Len(turns))
    /\ UNCHANGED <<inputVars, parseVars, turns, assistant_num, total_cost, sub_num,
                   found_any, truncVars>>

-----------------------------------------------------------------------------
(* print_costs                                                             *)

StartCosts ==
    /\ pc = "dispatch"
    /\ args.mode = "costs"
    /\ total_cost' = 0
    /\ assistant_num' = 0
    /\ StartLoop(<<Banner("COST BREAKDOWN")>>, Len(turns))
    /\ UNCHANGED <<inputVars, parseVars, turns, tool_num, sub_num, found_any, truncVars>>

\* line 489 negated: the turns print_costs renders
CostsRenders(t) == t.role = "assistant" /\ t.usage.has

\* lines 486-509: one iteration
CostsStep ==
    /\ pc = "loop"
    /\ args.mode = "costs"
    /\ i < Len(turns)
    /\ LET t == turns[i + 1]
           tn == CountTurn(t.role, turn_num)
           w == IF CostsRenders(t) THEN Window(tn) ELSE "continue"
           an == IF CostsRenders(t) THEN assistant_num + 1 ELSE assistant_num IN
       /\ turn_num' = tn
       /\ i' = i + 1
       /\ assistant_num' = an
       /\ total_cost' = IF w = "show" THEN total_cost + t.usage.total ELSE total_cost
       /\ out' = IF w = "show"
                 THEN Append(out, Entry("cost", i + 1, tn, an, t.usage.total, <<>>, <<>>))
                 ELSE out
       /\ pc' = LoopPc(w = "break", Len(turns))
    /\ UNCHANGED <<inputVars, parseVars, turns, tool_num, sub_num, found_any, truncVars>>

\* lines 514-533: one row per run result of every turn, numbered from base + 1
RECURSIVE SubagentRows(_, _, _)
SubagentRows(ts, x, base) ==
    IF x > Len(ts) THEN <<>>
    ELSE LET rs == IF ts[x].subagent_details.has THEN ts[x].subagent_details.results
                   ELSE <<>> IN
         [k \in 1..Len(rs) |-> Entry("subagent_row", x, 0, base + k, RunCost(rs[k]), <<>>, <<>>)]
         \o SubagentRows(ts, x + 1, base + Len(rs))

\* lines 511-540: the subagent rows and the totals, after the loop
CostsTotals ==
    /\ pc = "totals"
    /\ LET rows == SubagentRows(turns, 1, 0)
           sc == SubagentCost(turns) IN
       /\ sub_num' = Len(rows)
       /\ out' = out \o rows
                 \o (IF sc > 0 THEN <<Amount("SESSION", total_cost), Amount("SUBAGENTS", sc)>>
                     ELSE <<>>)
                 \o <<Amount("TOTAL", total_cost + sc)>>
    /\ pc' = "done"
    /\ UNCHANGED <<inputVars, parseVars, turns, i, turn_num, tool_num, assistant_num,
                   total_cost, found_any, truncVars>>

-----------------------------------------------------------------------------
(* print_subagents                                                         *)

LookBack == 5

StartSubagents ==
    /\ pc = "dispatch"
    /\ args.mode = "subagents"
    /\ sub_num' = 0
    /\ found_any' = FALSE
    /\ i' = 0
    /\ out' = out \o <<Banner("SUBAGENT RUNS")>>
    /\ pc' = IF Len(messages) = 0 THEN AfterLoop ELSE "loop"
    /\ UNCHANGED <<inputVars, parseVars, turns, turn_num, tool_num, assistant_num,
                   total_cost, truncVars>>

\* lines 569-573: the inner loop over one message's content; it stops at the
\* first subagent tool call of the message
RECURSIVE FirstSubagentCall(_)
FirstSubagentCall(its) ==
    IF its = <<>> THEN [found |-> FALSE, arguments |-> NoArgs]
    ELSE IF Head(its).type = "toolCall" /\ Head(its).name = "subagent"
    THEN [found |-> TRUE, arguments |-> Head(its).arguments]
    ELSE FirstSubagentCall(Tail(its))

MessageCall(entry) ==
    IF entry.msg.content.isStr THEN [found |-> FALSE, arguments |-> NoArgs]
    ELSE FirstSubagentCall(entry.msg.content.items)

\* lines 566-573: the outer loop, from message q down to message lo (both
\* 1-based); call_args is assigned at every message that holds a call
RECURSIVE ScanBack(_, _, _, _)
ScanBack(ms, q, lo, call_args) ==
    IF q < lo THEN call_args
    ELSE ScanBack(ms, q - 1, lo,
                  IF MessageCall(ms[q]).found THEN MessageCall(ms[q]).arguments
                  ELSE call_args)

\* lines 565-573 for the message at 1-based position p: range(i - 1,
\* max(i - 5, -1), -1) with i = p - 1 is the positions p - 1 down to
\* max(p - LookBack, 0) + 1
CallArgs(ms, p) == ScanBack(ms, p - 1, Max(p - LookBack, 0) + 1, NoArgs)

\* lines 575-636: the block of one invocation, its runs numbered from base + 1
InvocationBlock(ms, p, base) ==
    LET details == extract_subagent_details(ms[p].msg)
        rs == details.results
        ca == CallArgs(ms, p) IN
    <<Entry("invocation", p, 0, base + 1, 0, <<>>, <<details.mode>>)>>
    \o (IF ca.chain # <<>> THEN <<Entry("chain", p, 0, Len(ca.chain), 0, <<>>, ca.chain)>>
        ELSE IF ca.tasks # <<>> THEN <<Entry("tasks", p, 0, Len(ca.tasks), 0, <<>>, ca.tasks)>>
        ELSE <<>>)
    \o [k \in 1..Len(rs) |-> Entry("run", p, 0, base + k, RunCost(rs[k]), <<>>, <<>>)]
    \o (IF Len(rs) > 1 THEN <<Entry("combined", p, 0, 0, RunCosts(rs), <<>>, <<>>)>>
        ELSE <<>>)

\* lines 553-636: one iteration of the loop over the raw messages
SubagentsStep ==
    /\ pc = "loop"
    /\ args.mode = "subagents"
    /\ i < Len(messages)
    /\ LET details == extract_subagent_details(messages[i + 1].msg) IN
       /\ i' = i + 1
       /\ IF details.has
          THEN /\ found_any' = TRUE
               /\ out' = out \o InvocationBlock(messages, i + 1, sub_num)
               /\ sub_num' = sub_num + Len(details.results)
          ELSE UNCHANGED <<found_any, out, sub_num>>
       /\ pc' = IF i + 1 = Len(messages) THEN AfterLoop ELSE "loop"
    /\ UNCHANGED <<inputVars, parseVars, turns, turn_num, tool_num, assistant_num,
                   total_cost, truncVars>>

\* lines 638-639
SubagentsEnd ==
    /\ pc = "sub_end"
    /\ out' = IF found_any THEN out ELSE Append(out, Banner("no subagent invocations"))
    /\ pc' = "done"
    /\ UNCHANGED <<inputVars, parseVars, turns, loopVars, truncVars>>

-----------------------------------------------------------------------------
(* The truncate harness: truncate applied to a text, then to its result.   *)

TruncateOnce ==
    /\ tpc = "start"
    /\ res1' = truncate(text, max_len)
    /\ tpc' = "once"
    /\ UNCHANGED <<text, max_len, res2>>
    /\ UNCHANGED <<inputVars, pc, parseVars, turns, loopVars, out>>

TruncateAgain ==
    /\ tpc = "once"
    /\ res2' = truncate(res1, max_len)
    /\ tpc' = "twice"
    /\ UNCHANGED <<text, max_len, res1>>
    /\ UNCHANGED <<inputVars, pc, parseVars, turns, loopVars, out>>

-----------------------------------------------------------------------------
(* Initial states.  A run starts in main with the file and the arguments   *)
(* given; nothing is parsed and nothing is printed.                        *)

InitPipe(ls, a) ==
    /\ lines = ls
    /\ args = a
    /\ pc = "parse"
    /\ ln = 0
    /\ metadata = EmptyDict
    /\ events = <<>>
    /\ messages = <<>>
    /\ turns = <<>>
    /\ i = 0
    /\ turn_num = 0
    /\ tool_num = 0
    /\ assistant_num = 0
    /\ total_cost = 0
    /\ sub_num = 0
    /\ found_any = FALSE
    /\ out = <<>>

TruncIdle ==
    /\ text = <<>>
    /\ max_len = 0
    /\ res1 = <<>>
    /\ res2 = <<>>
    /\ tpc = "idle"

MessageLines(S) == {MessageLine(m) : m \in S}

Offsets == -1..MaxOffset
Limits == -1..MaxLimit

\* The renderer specification: message records only, every windowed mode
Init ==
    /\ \E ls \in SeqsUpTo(MessageLines(RenderMsgs), MaxTurns), m \in WindowedModes,
          o \in Offsets, l \in Limits :
          InitPipe(ls, Args(m, o, l, DefaultMaxContent))
    /\ TruncIdle

Next ==
    \/ ParseLine
    \/ ParseReturn
    \/ ExtractTurns
    \/ StartOverview
    \/ OverviewStep
    \/ StartConversation
    \/ ConversationStep
    \/ StartFull
    \/ FullStep
    \/ StartTools
    \/ ToolsStep
    \/ StartCosts
    \/ CostsStep
    \/ CostsTotals

Spec == Init /\ [][Next]_vars

\* The parser specification: every kind of line, every mode, no window
InitParse ==
    /\ \E ls \in SeqsUpTo(ParseLines, MaxLines), m \in Modes :
          InitPipe(ls, Args(m, 0, 0, DefaultMaxContent))
    /\ TruncIdle

NextParse ==
    \/ Next
    \/ StartSubagents
    \/ SubagentsStep
    \/ SubagentsEnd

SpecParse == InitParse /\ [][NextParse]_vars

\* The session totals specification: longer sessions of user and assistant
\* turns, the three views that number or total them, windows from 0 up
SessionMsgs == {MsgUser, MsgAsstText, MsgAsstTools}

InitSession ==
    /\ \E ls \in SeqsUpTo(MessageLines(SessionMsgs), MaxSessionTurns),
          m \in {"overview", "tools", "costs"}, o \in 0..MaxOffset, l \in 0..MaxLimit :
          InitPipe(ls, Args(m, o, l, DefaultMaxContent))
    /\ TruncIdle

NextSession ==
    \/ ParseLine
    \/ ParseReturn
    \/ ExtractTurns
    \/ StartOverview
    \/ OverviewStep
    \/ StartTools
    \/ ToolsStep
    \/ StartCosts
    \/ CostsStep
    \/ CostsTotals

SpecSession == InitSession /\ [][NextSession]_vars

\* The subagent specification: tool calls and subagent results, mode subagents
MsgCallB ==
    Msg("assistant", ListContent(<<TextItem(<<"g", "o">>), ToolCallItem("subagent", ArgsB)>>),
        Usage(2, 20, 4), "", NoDetails, FALSE)

SubMsgs == {MsgUser, MsgAsstTools, MsgCallB, MsgSubRes}

InitSub ==
    /\ \E ls \in SeqsUpTo(MessageLines(SubMsgs), MaxSubMsgs) :
          InitPipe(ls, Args("subagents", 0, 0, DefaultMaxContent))
    /\ TruncIdle

NextSub ==
    \/ ParseLine
    \/ ParseReturn
    \/ ExtractTurns
    \/ StartSubagents
    \/ SubagentsStep
    \/ SubagentsEnd

SpecSub == InitSub /\ [][NextSub]_vars

\* The content specification: every shape of content, in a message of a
\* generic role and in a toolResult message
Contents ==
    {StrContent(<<"a">>), StrContent(<<" ">>), StrContent(<<>>),
     ListContent(<<TextItem(<<"a">>)>>), ListContent(<<TextItem(<<" ", "\n">>)>>),
     ListContent(<<TextItem(<<>>), TextItem(<<"b">>)>>),
     ListContent(<<NonDictItem, ToolCallItem("bash", NoArgs), ThinkingItem(<<>>)>>)}

TextMsgs ==
    {Msg("assistant", c, NoUsage, "", NoDetails, FALSE) : c \in Contents}
    \cup {Msg("toolResult", c, NoUsage, "bash", NoDetails, FALSE) : c \in Contents}

InitText ==
    /\ \E ls \in SeqsUpTo(MessageLines(TextMsgs), MaxTextMsgs), m \in {"overview", "full"} :
          InitPipe(ls, Args(m, 0, 0, DefaultMaxContent))
    /\ TruncIdle

NextText ==
    \/ ParseLine
    \/ ParseReturn
    \/ ExtractTurns
    \/ StartOverview
    \/ OverviewStep
    \/ StartFull
    \/ FullStep

SpecText == InitText /\ [][NextText]_vars

\* The tool result specification: results whose text is about as long as the
\* cap of print_tools, every kind of --max-content, mode tools
HalfCap == ToolsResultCap \div 2

ToolMsgs ==
    {MsgUser, MsgAsstTools, MsgSubRes,
     Msg("toolResult", StrContent(Rep("x", ToolsResultCap)), NoUsage, "read", NoDetails, FALSE),
     Msg("toolResult", StrContent(Rep("x", ToolsResultCap + 1)), NoUsage, "read", NoDetails,
         FALSE),
     Msg("toolResult",
         ListContent(<<TextItem(Rep("y", HalfCap)), TextItem(Rep("z", HalfCap))>>),
         NoUsage, "bash", NoDetails, TRUE)}

MaxContents ==
    {0, 1, ToolsResultCap - 1, ToolsResultCap, ToolsResultCap + 1, DefaultMaxContent}

InitTools ==
    /\ \E ls \in SeqsUpTo(MessageLines(ToolMsgs), MaxToolMsgs), mc \in MaxContents :
          InitPipe(ls, Args("tools", 0, 0, mc))
    /\ TruncIdle

NextTools ==
    \/ ParseLine
    \/ ParseReturn
    \/ ExtractTurns
    \/ StartTools
    \/ ToolsStep

SpecTools == InitTools /\ [][NextTools]_vars

\* The truncate specification: every short text, the texts about as long as
\* a short maximum plus the suffix, every kind of maximum
SuffixLen == Len(TruncSuffix(10))

Texts ==
    SeqsUpTo({"a", " "}, MaxTextLen)
    \cup {Rep("a", n) : n \in SuffixLen..(SuffixLen + MaxShortMax + 1)}

MaxLens == (-1..MaxShortMax) \cup {DefaultMaxContent}

InitTrunc ==
    /\ InitPipe(<<>>, Args("overview", 0, 0, DefaultMaxContent))
    /\ text \in Texts
    /\ max_len \in MaxLens
    /\ res1 = <<>>
    /\ res2 = <<>>
    /\ tpc = "start"

NextTrunc ==
    \/ TruncateOnce
    \/ TruncateAgain

SpecTrunc == InitTrunc /\ [][NextTrunc]_vars

-----------------------------------------------------------------------------
(* Properties of the windowed renderers, checked under Spec.               *)

\* The number of user-role turns among the first k turns
TurnNumber(k) == Cardinality({j \in 1..k : turns[j].role = "user"})

\* The kinds of turn a view renders
Renders(mode, t) ==
    IF mode = "conversation" THEN ConversationRenders(t)
    ELSE IF mode = "tools" THEN ToolsRenders(t)
    ELSE IF mode = "costs" THEN CostsRenders(t)
    ELSE t.role \in {"user", "assistant", "toolResult"}

TurnKinds == {"user", "assistant", "toolResult", "subagent_summary", "toolCall", "cost"}

\* Turn k was printed
Printed(k) == \E e \in 1..Len(out) : out[e].kind \in TurnKinds /\ out[e].idx = k

RenderingDone == pc = "done" /\ args.mode \in WindowedModes

InWindowAsClaimed(n) ==
    n > args.offset /\ (args.limit = 0 \/ n <= args.offset + args.limit)

InWindow(n) ==
    /\ args.offset = 0 \/ n > args.offset
    /\ args.limit = 0 \/ n <= args.offset + args.limit

\* C1 as stated: in every windowed renderer a turn of a rendered kind is
\* printed iff turnNumber > offset and (limit = 0 or turnNumber <= offset +
\* limit), turns numbered 0 included.
C1_WindowAsClaimed ==
    RenderingDone =>
        \A k \in 1..Len(turns) :
            Renders(args.mode, turns[k]) => (Printed(k) <=> InWindowAsClaimed(TurnNumber(k)))

\* C1 amended: in every windowed renderer a turn of a rendered kind is
\* printed iff (offset = 0 or turnNumber > offset) and (limit = 0 or
\* turnNumber <= offset + limit); with offset 0 there is no lower bound, so
\* the turns numbered 0 are printed.  Turns of other kinds are never printed.
C1_Window ==
    RenderingDone =>
        \A k \in 1..Len(turns) :
            Printed(k) <=> (Renders(args.mode, turns[k]) /\ InWindow(TurnNumber(k)))

\* C1 witness: a window with both bounds hides a turn before it, shows a
\* turn in it and hides a turn after it.
C1_Witness ==
    /\ RenderingDone
    /\ args.offset > 0
    /\ args.limit > 0
    /\ \E a, b, c \in 1..Len(turns) :
          /\ a < b /\ b < c
          /\ Renders(args.mode, turns[a]) /\ ~Printed(a)
          /\ Printed(b)
          /\ Renders(args.mode, turns[c]) /\ ~Printed(c)

\* The sum of usage.cost.total over the assistant turns that carry usage
UsageCostSum ==
    LET S == {k \in 1..Len(turns) : turns[k].role = "assistant" /\ turns[k].usage.has}
        f[T \in SUBSET S] ==
            IF T = {} THEN 0
            ELSE LET k == CHOOSE x \in T : TRUE IN turns[k].usage.total + f[T \ {k}]
    IN f[S]

\* C2 as stated: the session total of print_overview and that of print_costs
\* both equal the sum of usage.cost.total over every assistant turn with
\* usage, whatever offset and limit are.
C2_SessionTotals ==
    pc = "done" /\ args.mode \in {"overview", "costs"} =>
        /\ total_cost = UsageCostSum
        /\ \A e \in 1..Len(out) :
              out[e].kind \in {"session_cost", "SESSION"} => out[e].cost = UsageCostSum

\* The tool calls of the assistant turns before turn x
CallsBefore(x) ==
    LET f[k \in 0..Len(turns)] ==
            IF k = 0 THEN 0
            ELSE f[k - 1] + (IF turns[k].role = "assistant" THEN Len(turns[k].tool_calls) ELSE 0)
    IN f[x - 1]

\* The rank of printed entry e among the printed tool calls of its turn
RankInTurn(e) ==
    Cardinality({d \in 1..e : out[d].kind = "toolCall" /\ out[d].idx = out[e].idx})

\* C3 as stated: print_tools prints the k-th tool call of the session as #k,
\* whatever offset and limit are.
C3_ToolNumbers ==
    pc = "done" /\ args.mode = "tools" =>
        \A e \in 1..Len(out) :
            out[e].kind = "toolCall" => out[e].n = CallsBefore(out[e].idx) + RankInTurn(e)

\* C8: in every windowed renderer the turn counter is 0 when the loop starts
\* and, after any number of iterations, is the number of user-role turns
\* processed; every printed turn was windowed with the number of user-role
\* turns up to and including it (0 when no user turn precedes it).
C8_TurnCounter ==
    pc \in {"loop", "totals", "done"} /\ args.mode \in WindowedModes =>
        /\ turn_num = TurnNumber(i)
        /\ \A e \in 1..Len(out) :
              out[e].kind \in TurnKinds => out[e].tn = TurnNumber(out[e].idx)

\* C8 witness: an assistant turn before the first user turn was windowed
\* with 0 and a later assistant or toolResult turn with 1.
C8_Witness ==
    /\ RenderingDone
    /\ turn_num = 1
    /\ \E d, e \in 1..Len(out) :
          /\ out[d].kind = "assistant" /\ out[d].tn = 0
          /\ out[e].kind \in {"assistant", "toolResult"} /\ out[e].tn = 1
          /\ turns[out[e].idx - 1].role = "user"

\* The sum of F(k) over the turns k = 1..Len(turns)
SumOverTurns(F(_)) ==
    LET f[k \in 0..Len(turns)] == IF k = 0 THEN 0 ELSE f[k - 1] + F(k) IN f[Len(turns)]

TurnCost(k) == turns[k].usage.total
TurnInput(k) == turns[k].usage.input
TurnOutput(k) == turns[k].usage.output

\* The cost of all run results of turn k, 0 when it carries no details
TurnRunsCost(k) ==
    LET rs == turns[k].subagent_details.results
        g[j \in 0..Len(rs)] == IF j = 0 THEN 0 ELSE g[j - 1] + rs[j].cost IN
    IF turns[k].subagent_details.has THEN g[Len(rs)] ELSE 0

TurnsWithDetails == {k \in 1..Len(turns) : turns[k].subagent_details.has}
TurnsOfRole(r) == {k \in 1..Len(turns) : turns[k].role = r}

HasEntry(kind) == \E e \in 1..Len(out) : out[e].kind = kind
EntryOf(kind) == out[CHOOSE e \in 1..Len(out) : out[e].kind = kind]

\* C11: the header aggregates of print_overview are taken over all turns:
\* the session cost and token totals, the subagent cost and invocation
\* count and the total, user, assistant and toolResult turn counts printed
\* are those of the whole turn list, and which of them are printed depends
\* on the turn list alone; none depends on offset or limit.
C11_HeaderUnwindowed ==
    args.mode = "overview" /\ pc \in {"loop", "done"} =>
        LET tc == SumOverTurns(TurnCost)
            sc == SumOverTurns(TurnRunsCost)
            sn == Cardinality(TurnsWithDetails) IN
        /\ HasEntry("session_cost") <=> tc > 0
        /\ tc > 0 =>
              /\ EntryOf("session_cost").cost = tc
              /\ EntryOf("tokens_in").n = SumOverTurns(TurnInput)
              /\ EntryOf("tokens_out").n = SumOverTurns(TurnOutput)
        /\ HasEntry("subagent_cost") <=> sc > 0
        /\ sc > 0 =>
              /\ EntryOf("subagent_cost").cost = sc
              /\ EntryOf("subagent_cost").n = sn
              /\ EntryOf("total_cost").cost = tc + sc
        /\ EntryOf("turns").n = Len(turns)
        /\ EntryOf("user_turns").n = Cardinality(TurnsOfRole("user"))
        /\ EntryOf("assistant_turns").n = Cardinality(TurnsOfRole("assistant"))
        /\ EntryOf("tool_results").n = Cardinality(TurnsOfRole("toolResult"))
        /\ HasEntry("subagent_invocations") <=> sn # 0
        /\ sn # 0 => EntryOf("subagent_invocations").n = sn

\* C11 witness: an overview whose window hides every turn of a session with
\* an assistant cost and a subagent cost still printed both in its header.
C11_Witness ==
    /\ pc = "done"
    /\ args.mode = "overview"
    /\ args.offset > 0
    /\ HasEntry("session_cost")
    /\ HasEntry("subagent_cost")
    /\ \A k \in 1..Len(turns) : ~Printed(k)

-----------------------------------------------------------------------------
(* Properties of print_subagents, checked under SpecSub.                   *)

HasSubagentCall(q) == MessageCall(messages[q]).found

\* The arguments of the subagent tool call nearest to message p among the 4
\* messages before it, the empty mapping when there is none
NearestCallArgs(p) ==
    LET S == {q \in Max(p - 4, 1)..(p - 1) : HasSubagentCall(q)} IN
    IF S = {} THEN NoArgs
    ELSE MessageCall(messages[CHOOSE q \in S : \A r \in S : r <= q]).arguments

\* The plan print_subagents prints for arguments ca: the chain when there is
\* one, else the tasks when there are some, else nothing
PlanOf(ca) ==
    IF ca.chain # <<>> THEN [kind |-> "chain", steps |-> ca.chain]
    ELSE IF ca.tasks # <<>> THEN [kind |-> "tasks", steps |-> ca.tasks]
    ELSE [kind |-> "none", steps |-> <<>>]

\* The plan printed in the block of the invocation at message p
PrintedPlan(p) ==
    IF \E e \in 1..Len(out) : out[e].idx = p /\ out[e].kind \in {"chain", "tasks"}
    THEN LET e == CHOOSE e \in 1..Len(out) :
                      out[e].idx = p /\ out[e].kind \in {"chain", "tasks"} IN
         [kind |-> out[e].kind, steps |-> out[e].names]
    ELSE [kind |-> "none", steps |-> <<>>]

\* C4 as stated: the arguments used for a toolResult with Subagent Details
\* at message i are those of the subagent tool call nearest to i among the 4
\* messages before it, and the empty mapping when none of them holds one.
C4_NearestCall ==
    pc = "done" /\ args.mode = "subagents" =>
        \A p \in 1..Len(messages) :
            extract_subagent_details(messages[p].msg).has =>
                PrintedPlan(p) = PlanOf(NearestCallArgs(p))

\* The number of entries of a kind among the first e printed entries
EntriesUpTo(kind, e) == Cardinality({d \in 1..e : out[d].kind = kind})

\* C13: in the finished subagent report the k-th invocation block, in file
\* order, is labelled INVOCATION #k whatever the number of runs of the
\* invocations before it, and the run sub-blocks are numbered 1, 2, 3, ...
\* across all invocations.
C13_InvocationNumbers ==
    pc = "done" /\ args.mode = "subagents" =>
        \A e \in 1..Len(out) :
            /\ out[e].kind = "invocation" => out[e].n = EntriesUpTo("invocation", e)
            /\ out[e].kind = "run" => out[e].n = EntriesUpTo("run", e)

-----------------------------------------------------------------------------
(* Properties of extract_turns, checked under SpecText.                    *)

TurnsBuilt == pc \notin {"parse", "extract", "aborted"}

\* C5 as stated: the texts of a toolResult turn are rebuilt from the result
\* content by the rule of the other roles (a string gives a segment only
\* when non-blank, a list one segment per text element with non-blank text),
\* so no text segment of any turn is blank.
C5_ResultTexts ==
    TurnsBuilt =>
        \A k \in 1..Len(turns) :
            /\ turns[k].role = "toolResult" =>
                  turns[k].texts = GenericTexts(messages[k].msg.content)
            /\ \A j \in 1..Len(turns[k].texts) : Strip(turns[k].texts[j]) # <<>>

-----------------------------------------------------------------------------
(* Properties of the result text of print_tools, checked under SpecTools.  *)

\* The characters of the result text that printed entry e carries before
\* the truncation marker
Carried(e) ==
    LET full == JoinSpace(turns[out[e].idx].texts)
        shown == out[e].txt[1] IN
    IF shown = full THEN Len(full) ELSE Len(shown) - Len(TruncSuffix(Len(full)))

\* C6 as stated: the text print_tools prints for a non-subagent toolResult
\* carries at most 500 characters of the result text, for every
\* --max-content, 0 and values above 500 included.
C6_ResultCap ==
    args.mode = "tools" =>
        \A e \in 1..Len(out) : out[e].kind = "toolResult" => Carried(e) <= ToolsResultCap

-----------------------------------------------------------------------------
(* Properties of truncate, checked under SpecTrunc.                        *)

Cut(t, m) == SubSeq(t, 1, m) \o TruncSuffix(Len(t))

\* C7 as stated, for the maxima that are not negative: truncate returns text
\* unchanged when max is 0 or len(text) <= max, otherwise the first max
\* characters followed by a suffix naming len(text); and truncating the
\* result again with the same max returns it unchanged.
C7_TruncateAsClaimed ==
    tpc = "twice" /\ max_len >= 0 =>
        /\ IF max_len = 0 \/ Len(text) <= max_len THEN res1 = text
           ELSE res1 = Cut(text, max_len)
        /\ res2 = res1

\* C7 amended: truncate returns text unchanged when max <= 0 or len(text) <=
\* max, otherwise the first max characters followed by a suffix naming
\* len(text).  Truncating the result again returns it unchanged when nothing
\* was cut; a cut result is longer than max, so it is cut again: the same
\* first max characters, followed by a suffix naming the length of the first
\* result, which is the first result only when len(text) is that length.
C7_Truncate ==
    LET kept == max_len <= 0 \/ Len(text) <= max_len IN
    /\ tpc \in {"once", "twice"} =>
          IF kept THEN res1 = text ELSE res1 = Cut(text, max_len)
    /\ tpc = "twice" =>
          IF kept THEN res2 = res1
          ELSE /\ res2 = SubSeq(text, 1, max_len) \o TruncSuffix(Len(res1))
               /\ res2 = res1 <=> Len(text) = max_len + Len(TruncSuffix(Len(text)))

\* C7 witness: a text was cut, and cutting the result again changed it.
C7_Witness ==
    /\ tpc = "twice"
    /\ max_len > 0
    /\ Len(text) > max_len
    /\ res1 = Cut(text, max_len)
    /\ res2 # res1

-----------------------------------------------------------------------------
(* Properties of parse_session and main, checked under SpecParse.          *)

IsMessageRecord(l) == l.kind = "json" /\ l.type = "message"
IsBad(l) == l.kind = "bad"

MessageRecords == SelectSeq(lines, IsMessageRecord)

\* C9: for a well-formed input the turn list has one turn per message-typed
\* record, in file order: as many turns as message records, the k-th turn
\* built from the k-th message record; no other record adds a turn.
C9_TurnPerMessage ==
    TurnsBuilt =>
        /\ Len(turns) = Len(MessageRecords)
        /\ \A k \in 1..Len(turns) :
              /\ messages[k] = MessageRecords[k]
              /\ turns[k] = TurnOf(MessageRecords[k])

\* C9 witness: a file of a session record, a user message and an assistant
\* message, in that order, gave the two turns in that order.
C9_Witness ==
    /\ pc = "done"
    /\ Len(lines) = 3
    /\ lines[1].type \in {"session", "unknown"}
    /\ Len(turns) = 2
    /\ turns[1].role = "user"
    /\ turns[2].role = "assistant"

\* C10: when a non-blank line of the input is not valid JSON the run aborts
\* in the parser and prints nothing: whenever something has been printed, or
\* main is past the parser, the whole file was parsed and none of its lines
\* was malformed.
C10_NoPartialReport ==
    (out # <<>> \/ pc \notin {"parse", "aborted"}) =>
        /\ ln = Len(lines)
        /\ \A k \in 1..Len(lines) : ~IsBad(lines[k])

\* C10 witness: the last line, after two valid message records, is
\* malformed; the run aborted there with nothing printed.
C10_Witness ==
    /\ pc = "aborted"
    /\ ln = Len(lines)
    /\ Len(messages) = 2
    /\ IsBad(lines[Len(lines)])
    /\ out = <<>>

\* The positions of the session-typed records among the first n lines
SessionRecords(n) == {k \in 1..n : lines[k].kind = "json" /\ lines[k].type = "session"}

\* The last session-typed record among the first n lines, the empty mapping
\* when there is none
LastSession(n) ==
    IF SessionRecords(n) = {} THEN EmptyDict
    ELSE lines[CHOOSE k \in SessionRecords(n) : \A j \in SessionRecords(n) : j <= k]

\* C12: the metadata slot holds the last session-typed record of the lines
\* read so far, and the empty mapping when there is none, so parse_session
\* returns the last session record of the file; a line of any other kind
\* (event, message, unknown, blank) leaves the slot as it is.  What
\* print_overview prints as the session id is that record's.
C12_LastSessionWins ==
    /\ metadata = LastSession(ln)
    /\ args.mode = "overview" /\ HasEntry("meta") =>
          EntryOf("meta").names = <<LastSession(Len(lines)).tag>>

\* C12 witness: a file of two session records and then a message was read
\* to its end; the slot holds the second session record.
C12_Witness ==
    /\ pc = "done"
    /\ Len(lines) = 3
    /\ lines[1].type = "session"
    /\ lines[2].type = "session"
    /\ lines[2] # lines[1]
    /\ lines[3].type = "message"
    /\ metadata = lines[2]

====
